---- MODULE Spec2Model ----
(***************************************************************************)
(* Expense tracker assistant: the Tool Layer over the Expense Store, the   *)
(* Identity Context, and the Turn Controller / Memory Manager graph over   *)
(* the Conversation Store.                                                 *)
(***************************************************************************)
EXTENDS Integers, Sequences, FiniteSets, TLC

\* Python's None, one per type of value: a text that is only carried
\* (a date string, a message), a number (user id, amount, datetime) and a
\* string the code matches (category, description).
None == "None"
NoneInt == -1
NoneStr == <<"None">>

(***************************************************************************)
(* Bounds of the model.                                                    *)
(***************************************************************************)
\* most records the Expense Store holds
MaxExpenses == 2

(***************************************************************************)
(* Text.  A string that is matched by the code is a sequence of            *)
(* characters; message texts that are only returned stay TLA+ strings.     *)
(***************************************************************************)
sFood == <<"F", "o", "o", "d">>
sfood == <<"f", "o", "o", "d">>
sTaxi == <<"T", "a", "x", "i">>
sGroceries == <<"G", "r", "o", "c">>
\* a text with the character "_" in it
sF_od == <<"F", "_", "o", "d">>

\* str.lower() of one character
LowerChar(ch) ==
  CASE ch = "F" -> "f"
    [] ch = "T" -> "t"
    [] ch = "G" -> "g"
    [] OTHER -> ch

\* SQL LIKE of lower(s) against lower(p): "%" matches any run of characters,
\* "_" matches exactly one character.
RECURSIVE LikeMatch(_, _)
LikeMatch(p, s) ==
  IF p = <<>> THEN s = <<>>
  ELSE IF Head(p) = "%"
       THEN LikeMatch(Tail(p), s) \/ (s # <<>> /\ LikeMatch(p, Tail(s)))
  ELSE IF s = <<>> THEN FALSE
  ELSE IF Head(p) = "_" THEN LikeMatch(Tail(p), Tail(s))
  ELSE LowerChar(Head(p)) = LowerChar(Head(s)) /\ LikeMatch(Tail(p), Tail(s))

\* column.ilike(f"%{x}%")
Ilike(s, x) == LikeMatch(<<"%">> \o x \o <<"%">>, s)

\* dateparser.parse: a datetime (here the day of the year) or None
ParseDate(s) ==
  CASE s = "1 January" -> 1
    [] s = "25 January" -> 25
    [] OTHER -> NoneInt

\* truth value of an Optional[int]: None and 0 are false
TruthyInt(x) == x # NoneInt /\ x # 0
\* truth value of an Optional[str]: None and "" are false
TruthyStr(x) == x # NoneStr /\ x # <<>>
\* truth value of an Optional date string
TruthyText(x) == x # None /\ x # ""

(***************************************************************************)
(* Universes the inputs are drawn from.                                    *)
(***************************************************************************)
UserIds == {1, 2}
Categories == {sFood, sfood, sTaxi}
\* the category filters a Query is called with
CategoryFilters == Categories \cup {sF_od}
Descriptions == {sGroceries}
Amounts == {50, 200}
DateStrs == {"1 January", "25 January", "someday"}
\* what datetime.now() returns
Now == {10}

\* the arguments of one tool call; an omitted argument is None
Args(tool, category, description, amount, date, start_date, end_date, keyword) ==
  [tool |-> tool, category |-> category, description |-> description,
   amount |-> amount, date |-> date, start_date |-> start_date,
   end_date |-> end_date, description_keyword |-> keyword]

GetCalls ==
  {Args("get", c, NoneStr, NoneInt, None, s, e, k) :
     c \in CategoryFilters \cup {NoneStr}, s \in DateStrs \cup {None},
     e \in DateStrs \cup {None}, k \in Descriptions \cup {NoneStr}}
CreateCalls ==
  {Args("create", c, d, a, None, None, None, NoneStr) :
     c \in Categories, d \in Descriptions \cup {NoneStr}, a \in Amounts}
UpdateCalls ==
  {Args("update", c, d, a, t, None, None, NoneStr) :
     c \in Categories, d \in Descriptions \cup {NoneStr},
     a \in Amounts \cup {NoneInt}, t \in DateStrs \cup {None}}
DeleteCalls ==
  {Args("delete", c, NoneStr, NoneInt, None, None, None, NoneStr) :
     c \in Categories}
AllCalls == GetCalls \cup CreateCalls \cup UpdateCalls \cup DeleteCalls

(***************************************************************************)
(* Results of a tool function: a returned value or an escaping exception.  *)
(***************************************************************************)
\* return {"status": ..., "message": ..., "data": ...}
DictResult(status, message, data) ==
  [raised |-> FALSE, exc |-> None, kind |-> "dict", status |-> status,
   message |-> message, data |-> data, total |-> 0, touched |-> FALSE]
\* return "<text>"
StrResult(message, data, total) ==
  [raised |-> FALSE, exc |-> None, kind |-> "str", status |-> None,
   message |-> message, data |-> data, total |-> total, touched |-> FALSE]
\* an exception leaves the function
Raised(exc) ==
  [raised |-> TRUE, exc |-> exc, kind |-> None, status |-> None,
   message |-> None, data |-> {}, total |-> 0, touched |-> FALSE]
\* the call reached "with Session(engine)"
Touched(out) == [out EXCEPT !.touched = TRUE]

\* an exception object in flight; NoExc when the call returned
Exc(type, code, detail) == [type |-> type, code |-> code, detail |-> detail]
NoExc == Exc(None, 0, None)

\* the number of records taken for their total
SumAmounts_Count(S) == Cardinality(S)
RECURSIVE SumAmounts(_)
SumAmounts(S) ==
  IF S = {} THEN 0
  ELSE LET e == CHOOSE x \in S : TRUE IN e.amount + SumAmounts(S \ {e})

(***************************************************************************)
(* Expense Store: schemas and controllers.                                 *)
(***************************************************************************)
\* An Expense row.
Expense(id, amount, description, category, date, user_id) ==
  [id |-> id, amount |-> amount, description |-> description,
   category |-> category, date |-> date, user_id |-> user_id]

\* ExpenseCreate(...) validates its fields: description is a required str.
ExpenseCreateValid(description, amount, category, date, user_id) ==
  /\ description # NoneStr
  /\ amount # NoneInt
  /\ category # NoneStr
  /\ date # NoneInt
  /\ user_id # NoneInt

\* ExpenseUpdate(description=..., amount=..., category=..., date=...): every
\* field handed to the constructor counts as set, a None one included.
ExpenseUpdate(description, amount, category, date) ==
  [fields_set |-> {"description", "amount", "category", "date"},
   description |-> description, amount |-> amount, category |-> category,
   date |-> date]

\* for key, value in expense_update.dict(exclude_unset=True).items():
\*     setattr(expense, key, value)
SetAttrs(e, upd) ==
  [id |-> e.id, user_id |-> e.user_id,
   description |-> IF "description" \in upd.fields_set
                   THEN upd.description ELSE e.description,
   amount |-> IF "amount" \in upd.fields_set THEN upd.amount ELSE e.amount,
   category |-> IF "category" \in upd.fields_set
                THEN upd.category ELSE e.category,
   date |-> IF "date" \in upd.fields_set THEN upd.date ELSE e.date]

\* ExpenseInDB.from_orm(expense) validates description: str, amount: float,
\* category: str, date: datetime.
ExpenseInDBValid(e) ==
  /\ e.description # NoneStr
  /\ e.amount # NoneInt
  /\ e.category # NoneStr
  /\ e.date # NoneInt

\* the selection without its condition on the owner
ByCategory_AnyOwner(db, category, uid) ==
  {e \in db : e.category = category}

\* select(Expense).where(and_(Expense.category == category,
\*                            Expense.user_id == current_user.id))
ByCategory(db, category, uid) ==
  {e \in db : e.category = category /\ e.user_id = uid}

\* The controller's result: the store after the call, the exception it
\* raises (NoExc when it returns) and the value it returns.
update_expenses_by_category(db, category, expense_update, uid, dbok) ==
  LET expenses == ByCategory(db, category, uid)
      updated == {SetAttrs(e, expense_update) : e \in expenses}
  IN IF expenses = {}
     THEN [db |-> db, ret |-> {},
           exc |-> Exc("HTTPException", 404, "No expenses found in category")]
     ELSE IF (\E e \in updated : ~ExpenseInDBValid(e)) \/ ~dbok
     THEN \* except Exception: session.rollback(); raise HTTPException(500)
          [db |-> db, ret |-> {},
           exc |-> Exc("HTTPException", 500,
                       "Failed to update expenses by category")]
     ELSE [db |-> (db \ expenses) \cup updated, ret |-> updated,
           exc |-> NoExc]

delete_expenses_by_category(db, category, uid, dbok) ==
  LET expenses == ByCategory(db, category, uid)
  IN IF expenses = {}
     THEN [db |-> db, ret |-> 0,
           exc |-> Exc("HTTPException", 404, "No expenses found in category")]
     ELSE IF ~dbok
     THEN [db |-> db, ret |-> 0,
           exc |-> Exc("HTTPException", 500,
                       "Failed to delete expenses by category")]
     ELSE [db |-> db \ expenses, ret |-> Cardinality(expenses),
           exc |-> NoExc]

(***************************************************************************)
(* Tool Layer.  Each tool function gives the store after the call (db, and *)
(* nid, the next primary key) and its outcome out.                         *)
(***************************************************************************)
ToolResult(db, nid, out) == [db |-> db, nid |-> nid, out |-> out]

\* Whether the module binds the name HTTPException: it imports no such name.
HTTPExceptionBound == FALSE

\* except HTTPException as he: return {"status": "error", "message": he.detail}
\* except Exception as e:      return {"status": "error", "message": str(e)}
\* Matching the first clause evaluates the name HTTPException; an unbound
\* name raises NameError out of the try statement.
HandleToolException(exc) ==
  IF ~HTTPExceptionBound THEN Touched(Raised("NameError"))
  ELSE Touched(DictResult("error", exc.detail, {}))

\* the comparison with a start equal to the end rejected too
StartAfterEnd_OrEqual(parsed_start_date, parsed_end_date) ==
  /\ TruthyInt(parsed_start_date) /\ TruthyInt(parsed_end_date)
  /\ parsed_start_date >= parsed_end_date
\* parsed_start_date and parsed_end_date and parsed_start_date > parsed_end_date
StartAfterEnd(parsed_start_date, parsed_end_date) ==
  /\ TruthyInt(parsed_start_date) /\ TruthyInt(parsed_end_date)
  /\ parsed_start_date > parsed_end_date

tool_get_expenses(uid, a, db, nid, tbl) ==
  LET parsed_start_date ==
        IF TruthyText(a.start_date) THEN ParseDate(a.start_date) ELSE NoneInt
      parsed_end_date ==
        IF TruthyText(a.end_date) THEN ParseDate(a.end_date) ELSE NoneInt
      InRange(e) ==
        IF TruthyInt(parsed_start_date) /\ TruthyInt(parsed_end_date)
        THEN parsed_start_date <= e.date /\ e.date <= parsed_end_date
        ELSE IF TruthyInt(parsed_start_date) THEN e.date >= parsed_start_date
        ELSE IF TruthyInt(parsed_end_date) THEN e.date <= parsed_end_date
        ELSE TRUE
      expenses ==
        {e \in db :
           /\ e.user_id = uid
           /\ TruthyStr(a.category) => Ilike(e.category, a.category)
           /\ TruthyStr(a.description_keyword)
                => Ilike(e.description, a.description_keyword)
           /\ InRange(e)}
      out ==
        IF ~TruthyInt(uid) THEN StrResult("Error: User ID is missing.", {}, 0)
        ELSE IF TruthyText(a.start_date) /\ ~TruthyInt(parsed_start_date)
        THEN StrResult("Error: Unable to parse the start date", {}, 0)
        ELSE IF TruthyText(a.end_date) /\ ~TruthyInt(parsed_end_date)
        THEN StrResult("Error: Unable to parse the end date", {}, 0)
        ELSE IF StartAfterEnd(parsed_start_date, parsed_end_date)
        THEN StrResult("Error: Start date cannot be after end date.", {}, 0)
        ELSE IF uid \notin tbl
        THEN Touched(StrResult("Error: User not found.", {}, 0))
        ELSE IF expenses # {}
        THEN Touched(StrResult("Here are your expenses", expenses,
                               SumAmounts(expenses)))
        ELSE Touched(StrResult(
               "No expenses found with the specified criteria.", {}, 0))
  IN ToolResult(db, nid, out)

tool_create_expenses(uid, a, db, nid, now, dbok) ==
  LET db_expense == Expense(nid, a.amount, a.description, a.category, now, uid)
  IN IF ~TruthyInt(uid)
     THEN ToolResult(db, nid, DictResult("error", "User ID is missing.", {}))
     ELSE IF ~ExpenseCreateValid(a.description, a.amount, a.category, now, uid)
     THEN ToolResult(db, nid, DictResult("error", "validation error", {}))
     ELSE IF ~dbok
     THEN ToolResult(db, nid, Touched(DictResult("error", "store error", {})))
     ELSE ToolResult(db \cup {db_expense}, nid + 1,
            Touched(DictResult("success", "Expense stored successfully.",
                               {db_expense})))

\* parsed_date.strftime('%Y-%m-%dT%H:%M:%S.%fZ'), and the datetime pydantic
\* reads back from that text in ExpenseUpdate(date=formatted_date)
FormatDate(d) == <<"iso", d>>
ReadIsoDate(t) == IF t = None THEN NoneInt ELSE t[2]

tool_update_expenses(uid, a, db, nid, tbl, dbok) ==
  LET parsed_date == IF TruthyText(a.date) THEN ParseDate(a.date) ELSE NoneInt
      formatted_date ==
        IF TruthyText(a.date) THEN FormatDate(parsed_date) ELSE None
      expense_update ==
        ExpenseUpdate(a.description, a.amount, a.category,
                      ReadIsoDate(formatted_date))
      r == update_expenses_by_category(db, a.category, expense_update, uid,
                                       dbok)
  IN IF ~TruthyInt(uid)
     THEN ToolResult(db, nid, DictResult("error", "User ID is missing.", {}))
     ELSE IF TruthyText(a.date) /\ ~TruthyInt(parsed_date)
     THEN ToolResult(db, nid,
                     DictResult("error", "Unable to parse the date", {}))
     ELSE IF uid \notin tbl
     THEN ToolResult(db, nid,
                     Touched(DictResult("error", "User not found.", {})))
     ELSE IF r.exc # NoExc
     THEN ToolResult(r.db, nid, HandleToolException(r.exc))
     ELSE ToolResult(r.db, nid,
                     Touched(DictResult("success", "Updated expenses", r.ret)))

\* the function without its check of user_id
tool_delete_expenses_NoIdentityCheck(uid, a, db, nid, tbl, dbok) ==
  LET r == delete_expenses_by_category(db, a.category, uid, dbok)
  IN IF uid \notin tbl
     THEN ToolResult(db, nid,
                     Touched(DictResult("error", "User not found.", {})))
     ELSE IF r.exc # NoExc
     THEN ToolResult(r.db, nid, HandleToolException(r.exc))
     ELSE ToolResult(r.db, nid,
                     Touched(DictResult("success", "Deleted expenses", {})))
tool_delete_expenses(uid, a, db, nid, tbl, dbok) ==
  LET r == delete_expenses_by_category(db, a.category, uid, dbok)
  IN IF ~TruthyInt(uid)
     THEN ToolResult(db, nid, DictResult("error", "User ID is missing.", {}))
     ELSE IF uid \notin tbl
     THEN ToolResult(db, nid,
                     Touched(DictResult("error", "User not found.", {})))
     ELSE IF r.exc # NoExc
     THEN ToolResult(r.db, nid, HandleToolException(r.exc))
     ELSE ToolResult(r.db, nid,
                     Touched(DictResult("success", "Deleted expenses", {})))

\* The function one requested tool call names, applied to its arguments.
RunTool(uid, a, db, nid, tbl, now, dbok) ==
  CASE a.tool = "get" -> tool_get_expenses(uid, a, db, nid, tbl)
    [] a.tool = "create" -> tool_create_expenses(uid, a, db, nid, now, dbok)
    [] a.tool = "update" -> tool_update_expenses(uid, a, db, nid, tbl, dbok)
    [] a.tool = "delete" -> tool_delete_expenses(uid, a, db, nid, tbl, dbok)

(***************************************************************************)
(* State.                                                                  *)
(***************************************************************************)
VARIABLES
  expenses,   \* Expense Store: the rows of the expense table
  nextId,     \* Expense Store: the next primary key
  users,      \* Expense Store: the ids of the rows of the user table
  ctx,        \* Identity Context: current_user_id in each caller's context
  token,      \* the Token of current_user_id.set: the value to restore
  pc,         \* where each caller's request is
  nodes,      \* the graph nodes scheduled for the next superstep of the turn
  conv,       \* Conversation Store: messages and summary of each thread
  log,        \* every message ever appended to each thread, in order
  nextMsgId,  \* the id the next message gets
  llmIn,      \* the message list of the latest model call
  turns,      \* the number of requests received
  chat,       \* completed turns, while every turn so far ended without a
              \* tool call and without an error; -1 afterwards
  passes,     \* the number of successful summarization passes
  calls,      \* the number of tool function calls made
  last,       \* the tool calls of the latest step: arguments, uid, outcome
  lastStep,   \* the latest step and the caller that took it
  input       \* ToolSpec: the arguments the tool function is applied to

vars == <<expenses, nextId, users, ctx, token, pc, nodes, conv, log,
          nextMsgId, llmIn, turns, chat, passes, calls, last, lastStep,
          input>>

storeVars == <<expenses, nextId, users, input>>
convVars == <<conv, log, nextMsgId, llmIn, passes>>

\* Each caller is an authenticated user; get_current_user gives its row.
Callers == UserIds
current_user(c) == [id |-> c]

(***************************************************************************)
(* Bounds of the turn model.                                               *)
(***************************************************************************)
\* most requests received in one behaviour of Spec
MaxTurns == 3
\* most requests received in one behaviour of ChatSpec
MaxChatTurns == 7
\* most tool calls one model response requests
MaxCallsPerResponse == 2
\* most tool calls requested in one behaviour of Spec
MaxCalls == 2

(***************************************************************************)
(* Messages and the graph state.                                           *)
(***************************************************************************)
\* a thread id made from the user of the request
thread_id_PerUser(c) == IF c = 1 THEN "1" ELSE "2"
\* config = {"configurable": {"thread_id": "1"}}
thread_id(c) == "1"
ThreadIds == {"1", "2"}

\* A message: content is a list of text fragments, tool_calls the calls an
\* Assistant message requests, of the id of the Assistant message a
\* Tool-Result answers and idx the place of the answered call in it.
Msg(id, type, content, tool_calls, of, idx) ==
  [id |-> id, type |-> type, content |-> content, tool_calls |-> tool_calls,
   of |-> of, idx |-> idx]

HumanMessage(id, content) == Msg(id, "human", content, <<>>, 0, 0)
AIMessage(id, tool_calls) == Msg(id, "ai", <<"a">>, tool_calls, 0, 0)
ToolMessage(id, content, of, idx) == Msg(id, "tool", content, <<>>, of, idx)
\* the persona alone, whatever the summary
SystemMessage_PersonaOnly(summary) ==
  Msg(0, "system", <<"sys_msg">>, <<>>, 0, 0)
\* the persona, with the summary put before it when there is one
SystemMessage(summary) ==
  Msg(0, "system",
      IF summary # <<>>
      THEN <<"Summary of conversation earlier:">> \o summary \o <<"sys_msg">>
      ELSE <<"sys_msg">>,
      <<>>, 0, 0)

\* the text a caller sends
UserText(c) == IF c = 1 THEN <<"q1">> ELSE <<"q2">>

\* what the model may answer to the summarization prompt (response.content)
SummaryOutputs == {<<>>, <<"sA">>}

\* the tool calls the model requests in the turn model
TurnCalls ==
  {Args("create", sFood, sGroceries, 50, None, None, None, NoneStr),
   Args("delete", sFood, NoneStr, NoneInt, None, None, None, NoneStr),
   Args("get", sFood, NoneStr, NoneInt, None, None, None, NoneStr)}

\* the tool_calls of a model response: none, or up to MaxCallsPerResponse
Responses ==
  UNION {[1..n -> TurnCalls] : n \in 0..MaxCallsPerResponse}

Last(seq) == seq[Len(seq)]

\* add_messages with RemoveMessage(id=m.id) updates: drop the named messages
RemoveMessages(messages, ids) ==
  SelectSeq(messages, LAMBDA m : m.id \notin ids)

\* langgraph.prebuilt.tools_condition: "tools" when the last message carries
\* tool calls, END otherwise
END == "__end__"
tools_condition(messages) ==
  IF Len(Last(messages).tool_calls) > 0 THEN "tools" ELSE END

THRESHOLD == 6
\* should_continue with the comparison off by one
should_continue_AtSix(messages) ==
  IF Len(messages) >= THRESHOLD THEN "summarize_conversation" ELSE END
\* should_continue with a threshold one message higher
should_continue_OverSeven(messages) ==
  IF Len(messages) > THRESHOLD + 1 THEN "summarize_conversation" ELSE END
should_continue(messages) ==
  IF Len(messages) > THRESHOLD THEN "summarize_conversation" ELSE END

\* The two conditional edges out of "assistant" are separate branches of
\* the graph: each is evaluated on the state that holds the response, and
\* every node a branch names runs in the next superstep.
AfterAssistant(messages) ==
  {tools_condition(messages), should_continue(messages)} \ {END}

\* messages[:-2], the messages summarize_conversation removes
KEEP == 2
\* the slice taken one message short: messages[:-3]
AllButLast_KeepThree(messages) ==
  IF Len(messages) > KEEP + 1
  THEN SubSeq(messages, 1, Len(messages) - (KEEP + 1))
  ELSE <<>>
\* the slice that spares the first message: messages[1:-2]
AllButLast_ButFirst(messages) ==
  IF Len(messages) > KEEP + 1
  THEN SubSeq(messages, 2, Len(messages) - KEEP)
  ELSE <<>>
AllButLast(messages) ==
  IF Len(messages) > KEEP THEN SubSeq(messages, 1, Len(messages) - KEEP)
  ELSE <<>>
delete_messages(messages) ==
  {AllButLast(messages)[i].id : i \in 1..Len(AllButLast(messages))}

\* the prompt summarize_conversation adds after the history
SummaryPrompt(summary) ==
  HumanMessage(0, IF summary # <<>>
                  THEN <<"This is summary of the conversation to date:">>
                         \o summary \o <<"Extend the summary">>
                  ELSE <<"Create a summary of the conversation above:">>)

\* The summary summarize_conversation returns for the model's output.
NewSummary(summary, output) == output

(***************************************************************************)
(* Identity Context.                                                       *)
(***************************************************************************)
\* token = current_user_id.set(current_user.id): the value the context holds
\* during the turn
IdentityForTurn(c) == current_user(c).id

\* the reset done after invoke instead of in a finally block: skipped when
\* invoke raises
IdentityAfterTurn_NoFinally(c, failed) ==
  IF failed THEN ctx[c] ELSE token[c]
\* finally: current_user_id.reset(token): the value the context holds once
\* invoke has returned (failed = FALSE) or raised (failed = TRUE)
IdentityAfterTurn(c, failed) == token[c]

\* the identity kept in one process-wide slot that the latest authenticated
\* request overwrites
IdentityRead_Global(c) ==
  LET waiting == {d \in Callers \ {c} : pc[d] = "pending"}
  IN IF waiting # {} THEN current_user(CHOOSE d \in waiting : TRUE).id
     ELSE ctx[c]
\* current_user_id.get() in a tool that runs in the context of caller c
IdentityRead(c) == ctx[c]

(***************************************************************************)
(* Initial states.                                                         *)
(***************************************************************************)
EmptyThread == [messages |-> <<>>, summary |-> <<>>]
NoStep == [kind |-> "init", caller |-> 0]

InitTurn ==
  /\ ctx = [c \in Callers |-> NoneInt]
  /\ token = [c \in Callers |-> NoneInt]
  /\ pc = [c \in Callers |-> "idle"]
  /\ nodes = {}
  /\ conv = [t \in ThreadIds |-> EmptyThread]
  /\ log = [t \in ThreadIds |-> <<>>]
  /\ nextMsgId = 1
  /\ llmIn = <<>>
  /\ turns = 0
  /\ chat = 0
  /\ passes = 0
  /\ calls = 0
  /\ last = <<>>
  /\ lastStep = NoStep

NoInput == Args(None, NoneStr, NoneStr, NoneInt, None, None, None, NoneStr)

Init ==
  /\ expenses = {}
  /\ nextId = 1
  /\ users = UserIds
  /\ input = NoInput
  /\ InitTurn

(***************************************************************************)
(* query_agent: one request of caller c.                                   *)
(***************************************************************************)
InTurn(c) == pc[c] = "running"
\* query_agent is a coroutine without an await: the event loop runs one
\* request body at a time.
LoopFree == \A d \in Callers : ~InTurn(d)

Step(kind, c) == [kind |-> kind, caller |-> c]

\* compiled_graph.invoke is given a config without a recursion_limit: the
\* graph runs at most the default number of supersteps in one invocation
\* and raises GraphRecursionError when nodes are still scheduled after them.
RecursionLimit == 25

\* the messages the latest turn of c's thread appended after its input
TurnLog(c) ==
  LET l == log[thread_id(c)]
      h == CHOOSE i \in 0..Len(l) :
             /\ i = 0 \/ l[i].type = "human"
             /\ \A j \in (i + 1)..Len(l) : l[j].type # "human"
  IN SubSeq(l, h + 1, Len(l))

\* The supersteps of the turn that wrote to the thread: one for each model
\* response and one for each response whose tool calls were run.
Supersteps(c) ==
  LET l == TurnLog(c)
  IN Cardinality({i \in DOMAIN l : l[i].type = "ai"})
     + Cardinality({l[i].of : i \in {j \in DOMAIN l : l[j].type = "tool"}})

\* the turn may run one more superstep
WithinLimit(c) == Supersteps(c) < RecursionLimit

\* A request of caller c arrives and get_current_user resolves its user;
\* the loop does this between request bodies, never during one.
Receive(c, max) ==
  /\ pc[c] \in {"idle", "returned", "raised"}
  /\ LoopFree
  /\ turns < max
  /\ pc' = [pc EXCEPT ![c] = "pending"]
  /\ turns' = turns + 1
  /\ last' = <<>>
  /\ lastStep' = Step("receive", c)
  /\ UNCHANGED <<storeVars, ctx, token, nodes, convVars, chat, calls>>

\* The body starts: the identity is set and compiled_graph.invoke writes the
\* input message to the thread and schedules "assistant" (START -> assistant).
\* Nodes left scheduled by a turn that failed are discarded.
Enter(c) ==
  /\ pc[c] = "pending"
  /\ LoopFree
  /\ LET t == thread_id(c)
         human == HumanMessage(nextMsgId, UserText(c))
     IN /\ conv' = [conv EXCEPT ![t].messages = @ \o <<human>>]
        /\ log' = [log EXCEPT ![t] = @ \o <<human>>]
  /\ nextMsgId' = nextMsgId + 1
  /\ token' = [token EXCEPT ![c] = ctx[c]]
  /\ ctx' = [ctx EXCEPT ![c] = IdentityForTurn(c)]
  /\ pc' = [pc EXCEPT ![c] = "running"]
  /\ nodes' = {"assistant"}
  /\ last' = <<>>
  /\ lastStep' = Step("enter", c)
  /\ UNCHANGED <<storeVars, llmIn, turns, chat, passes, calls>>

\* invoke raises: the finally block resets the identity and query_agent
\* raises HTTPException(500).  The thread keeps what the completed
\* supersteps wrote.
FailTurn(c) ==
  /\ ctx' = [ctx EXCEPT ![c] = IdentityAfterTurn(c, TRUE)]
  /\ pc' = [pc EXCEPT ![c] = "raised"]
  /\ nodes' = {}
  /\ chat' = -1

\* Superstep "assistant": the model answers with tool_calls = resp.
Assistant(c, resp, max) ==
  /\ InTurn(c)
  /\ WithinLimit(c)
  /\ nodes = {"assistant"}
  /\ calls + Len(resp) <= max
  /\ LET t == thread_id(c)
         state == conv[t]
         response == AIMessage(nextMsgId, resp)
         messages == state.messages \o <<response>>
     IN /\ llmIn' = <<SystemMessage(state.summary)>> \o state.messages
        /\ conv' = [conv EXCEPT ![t].messages = messages]
        /\ log' = [log EXCEPT ![t] = @ \o <<response>>]
        /\ nodes' = AfterAssistant(messages)
  /\ nextMsgId' = nextMsgId + 1
  /\ chat' = IF Len(resp) > 0 THEN -1 ELSE chat
  /\ last' = <<>>
  /\ lastStep' = Step("assistant", c)
  /\ UNCHANGED <<storeVars, ctx, token, pc, turns, passes, calls>>

\* The failure of a turn that undoes the latest record the store took.
AssistantFail_Undo(c) ==
  /\ InTurn(c)
  /\ WithinLimit(c)
  /\ nodes = {"assistant"}
  /\ FailTurn(c)
  /\ last' = <<>>
  /\ lastStep' = Step("assistant_fail", c)
  /\ expenses' = {e \in expenses : e.id # nextId - 1}
  /\ UNCHANGED <<nextId, users, input, token, convVars, turns, calls>>

\* Superstep "assistant": the model call raises.
AssistantFail(c) ==
  /\ InTurn(c)
  /\ WithinLimit(c)
  /\ nodes = {"assistant"}
  /\ FailTurn(c)
  /\ last' = <<>>
  /\ lastStep' = Step("assistant_fail", c)
  /\ UNCHANGED <<storeVars, token, convVars, turns, calls>>

(***************************************************************************)
(* ToolNode: the requested calls of the last message are run.              *)
(***************************************************************************)
\* The orders in which n calls, run on a thread pool, may reach the store.
Orders(n) == {o \in [1..n -> 1..n] : \A i, j \in 1..n : o[i] = o[j] => i = j}

\* Run the calls cs in the order ord; outs pairs each call's index with its
\* outcome.
RECURSIVE RunCalls(_, _, _, _, _, _, _, _)
RunCalls(uid, cs, ord, db, nid, tbl, now, oks) ==
  IF ord = <<>> THEN [db |-> db, nid |-> nid, outs |-> {}]
  ELSE LET i == Head(ord)
           r == RunTool(uid, cs[i], db, nid, tbl, now, oks[i])
           rest == RunCalls(uid, cs, Tail(ord), r.db, r.nid, tbl, now, oks)
       IN [db |-> rest.db, nid |-> rest.nid,
           outs |-> rest.outs \cup {<<i, r.out>>}]

OutOf(outs, i) == (CHOOSE p \in outs : p[1] = i)[2]

\* what the step records of each call it ran
Ran(uid, cs, outs) ==
  [i \in 1..Len(cs) |-> [call |-> cs[i], uid |-> uid, out |-> OutOf(outs, i)]]

\* The content of the ToolMessage for an outcome; an exception the node
\* handles becomes an error text.
ToolContent(out) ==
  IF out.raised THEN <<"Error:", out.exc>> ELSE <<out.message>>

ToolMessages(ai, outs, firstId) ==
  [i \in 1..Len(ai.tool_calls) |->
     ToolMessage(firstId + i - 1, ToolContent(OutOf(outs, i)), ai.id, i)]

\* Superstep "tools" for the outcome the environment picks.  ord: the order
\* in which the calls reach the store; oks: whether the store accepts each
\* call's write; handled: whether ToolNode turns an exception of a tool into
\* an error ToolMessage (handle_tool_errors) or lets it end the turn, which
\* depends on the installed langgraph release.
ToolsRun(c, ord, oks, now, handled) ==
  LET t == thread_id(c)
      ai == Last(conv[t].messages)
      n == Len(ai.tool_calls)
      uid == IdentityRead(c)
      r == RunCalls(uid, ai.tool_calls, ord, expenses, nextId, users, now, oks)
      raised == \E p \in r.outs : p[2].raised
      msgs == ToolMessages(ai, r.outs, nextMsgId)
  IN /\ raised \/ handled
     /\ Cardinality(r.db) <= MaxExpenses
     /\ expenses' = r.db
     /\ nextId' = r.nid
     /\ calls' = calls + n
     /\ last' = Ran(uid, ai.tool_calls, r.outs)
     /\ IF raised /\ ~handled
        THEN /\ FailTurn(c)
             /\ lastStep' = Step("tools_fail", c)
             /\ UNCHANGED <<conv, log, nextMsgId>>
        ELSE /\ conv' = [conv EXCEPT ![t].messages = @ \o msgs]
             /\ log' = [log EXCEPT ![t] = @ \o msgs]
             /\ nextMsgId' = nextMsgId + n
             /\ nodes' = {"assistant"}
             /\ lastStep' = Step("tools", c)
             /\ UNCHANGED <<ctx, pc, chat>>

ToolDispatch(c) ==
  /\ InTurn(c)
  /\ WithinLimit(c)
  /\ nodes = {"tools"}
  /\ LET n == Len(Last(conv[thread_id(c)].messages).tool_calls)
     IN \E ord \in Orders(n), oks \in [1..n -> BOOLEAN], now \in Now,
           handled \in BOOLEAN :
          ToolsRun(c, ord, oks, now, handled)
  /\ UNCHANGED <<users, input, token, llmIn, turns, passes>>

(***************************************************************************)
(* summarize_conversation.                                                 *)
(***************************************************************************)
\* Superstep "summarize_conversation": the model answers with output.
Summarize(c, output) ==
  /\ InTurn(c)
  /\ WithinLimit(c)
  /\ nodes = {"summarize_conversation"}
  /\ LET t == thread_id(c)
         state == conv[t]
     IN /\ llmIn' = state.messages \o <<SummaryPrompt(state.summary)>>
        /\ conv' = [conv EXCEPT
             ![t].summary = NewSummary(state.summary, output),
             ![t].messages =
                RemoveMessages(state.messages, delete_messages(state.messages))]
  /\ passes' = passes + 1
  /\ nodes' = {}
  /\ last' = <<>>
  /\ lastStep' = Step("summarize", c)
  /\ UNCHANGED <<storeVars, ctx, token, pc, log, nextMsgId, turns, chat,
                 calls>>

\* The failure of a node that removed the messages before calling the model.
SummarizeFail_Pruned(c) ==
  /\ InTurn(c)
  /\ WithinLimit(c)
  /\ nodes = {"summarize_conversation"}
  /\ FailTurn(c)
  /\ last' = <<>>
  /\ lastStep' = Step("summarize_fail", c)
  /\ LET t == thread_id(c)
     IN conv' = [conv EXCEPT
          ![t].messages =
             RemoveMessages(conv[t].messages, delete_messages(conv[t].messages))]
  /\ UNCHANGED <<storeVars, token, log, nextMsgId, llmIn, passes, turns,
                 calls>>

\* Superstep "summarize_conversation": the model call raises.
SummarizeFail(c) ==
  /\ InTurn(c)
  /\ WithinLimit(c)
  /\ nodes = {"summarize_conversation"}
  /\ FailTurn(c)
  /\ last' = <<>>
  /\ lastStep' = Step("summarize_fail", c)
  /\ UNCHANGED <<storeVars, token, convVars, turns, calls>>

\* Superstep with both "tools" and "summarize_conversation" scheduled: the
\* two nodes read the same state and their writes are applied together; the
\* edge tools -> assistant schedules "assistant" again.  ok: whether the
\* summarization model call succeeds.
ToolsAndSummaryRun(c, ord, oks, now, handled, output, ok) ==
  LET t == thread_id(c)
      state == conv[t]
      ai == Last(state.messages)
      n == Len(ai.tool_calls)
      uid == IdentityRead(c)
      r == RunCalls(uid, ai.tool_calls, ord, expenses, nextId, users, now, oks)
      raised == \E p \in r.outs : p[2].raised
      msgs == ToolMessages(ai, r.outs, nextMsgId)
  IN /\ raised \/ handled
     /\ ok \/ output = <<>>
     /\ Cardinality(r.db) <= MaxExpenses
     /\ expenses' = r.db
     /\ nextId' = r.nid
     /\ calls' = calls + n
     /\ last' = Ran(uid, ai.tool_calls, r.outs)
     /\ IF (raised /\ ~handled) \/ ~ok
        THEN /\ FailTurn(c)
             /\ lastStep' = Step("tools_summarize_fail", c)
             /\ UNCHANGED <<conv, log, nextMsgId, llmIn, passes>>
        ELSE /\ llmIn' = state.messages \o <<SummaryPrompt(state.summary)>>
             /\ conv' = [conv EXCEPT
                  ![t].summary = NewSummary(state.summary, output),
                  ![t].messages =
                     RemoveMessages(state.messages,
                                    delete_messages(state.messages))
                     \o msgs]
             /\ log' = [log EXCEPT ![t] = @ \o msgs]
             /\ nextMsgId' = nextMsgId + n
             /\ passes' = passes + 1
             /\ nodes' = {"assistant"}
             /\ lastStep' = Step("tools_summarize", c)
             /\ UNCHANGED <<ctx, pc, chat>>

ToolsAndSummarize(c) ==
  /\ InTurn(c)
  /\ WithinLimit(c)
  /\ nodes = {"tools", "summarize_conversation"}
  /\ LET n == Len(Last(conv[thread_id(c)].messages).tool_calls)
     IN \E ord \in Orders(n), oks \in [1..n -> BOOLEAN], now \in Now,
           handled \in BOOLEAN, output \in SummaryOutputs, ok \in BOOLEAN :
          ToolsAndSummaryRun(c, ord, oks, now, handled, output, ok)
  /\ UNCHANGED <<users, input, token, turns>>

(***************************************************************************)
(* The end of a turn, and a tool called outside a turn.                    *)
(***************************************************************************)
\* No node is scheduled: invoke returns the state, the identity is reset and
\* query_agent returns the content of the last Assistant message.
Finish(c) ==
  /\ InTurn(c)
  /\ nodes = {}
  /\ ctx' = [ctx EXCEPT ![c] = IdentityAfterTurn(c, FALSE)]
  /\ pc' = [pc EXCEPT ![c] = "returned"]
  /\ chat' = IF chat >= 0 THEN chat + 1 ELSE chat
  /\ last' = <<>>
  /\ lastStep' = Step("finish", c)
  /\ UNCHANGED <<storeVars, token, nodes, convVars, turns, calls>>

\* The tool function that the arguments a name, called directly in the
\* context of caller c, outside any turn of another caller.
CallTool(c, a, now, dbok) ==
  /\ \A d \in Callers \ {c} : ~InTurn(d)
  /\ LET uid == IdentityRead(c)
         r == RunTool(uid, a, expenses, nextId, users, now, dbok)
     IN /\ Cardinality(r.db) <= MaxExpenses
        /\ expenses' = r.db
        /\ nextId' = r.nid
        /\ last' = <<[call |-> a, uid |-> uid, out |-> r.out]>>
  /\ calls' = calls + 1
  /\ lastStep' = Step("call", c)
  /\ UNCHANGED <<users, input,ctx, token, pc, nodes, convVars, turns, chat>>

\* The step limit is reached and the turn goes on as if nothing happened.
GraphRecursionError_Ignored(c) ==
  /\ InTurn(c)
  /\ nodes # {}
  /\ ~WithinLimit(c)
  /\ last' = <<>>
  /\ lastStep' = Step("recursion_error", c)
  /\ UNCHANGED <<storeVars, ctx, token, pc, nodes, convVars, turns, chat,
                 calls>>

\* Nodes are scheduled and the step limit is reached: invoke raises
\* GraphRecursionError, which ends the turn as any other exception does.
GraphRecursionError(c) ==
  /\ InTurn(c)
  /\ nodes # {}
  /\ ~WithinLimit(c)
  /\ FailTurn(c)
  /\ last' = <<>>
  /\ lastStep' = Step("recursion_error", c)
  /\ UNCHANGED <<storeVars, token, convVars, turns, calls>>

(***************************************************************************)
(* The whole program.                                                      *)
(***************************************************************************)
\* One user sends requests; the model answers with any of Responses.
Next ==
  \E c \in {1} :
    \/ Receive(c, MaxTurns)
    \/ Enter(c)
    \/ \E resp \in Responses : Assistant(c, resp, MaxCalls)
    \/ AssistantFail(c)
    \/ ToolDispatch(c)
    \/ \E output \in SummaryOutputs : Summarize(c, output)
    \/ SummarizeFail(c)
    \/ ToolsAndSummarize(c)
    \/ Finish(c)

Spec == Init /\ [][Next]_vars

(***************************************************************************)
(* Two users send requests; a response of the model requests at most one   *)
(* tool call, of PairCalls.                                                *)
(***************************************************************************)
PairCalls ==
  {Args("create", sFood, sGroceries, 50, None, None, None, NoneStr)}
PairResponses == {<<>>} \cup {<<a>> : a \in PairCalls}

PairNext ==
  \E c \in Callers :
    \/ Receive(c, MaxTurns)
    \/ Enter(c)
    \/ \E resp \in PairResponses : Assistant(c, resp, MaxCalls)
    \/ AssistantFail(c)
    \/ ToolDispatch(c)
    \/ \E output \in SummaryOutputs : Summarize(c, output)
    \/ SummarizeFail(c)
    \/ ToolsAndSummarize(c)
    \/ Finish(c)

PairSpec == Init /\ [][PairNext]_vars

(***************************************************************************)
(* The conversation alone: every model response is without tool calls.     *)
(***************************************************************************)
ChatNext ==
  \E c \in Callers :
    \/ Receive(c, MaxChatTurns)
    \/ Enter(c)
    \/ Assistant(c, <<>>, 0)
    \/ AssistantFail(c)
    \/ \E output \in SummaryOutputs : Summarize(c, output)
    \/ SummarizeFail(c)
    \/ Finish(c)

ChatSpec == Init /\ [][ChatNext]_vars

(***************************************************************************)
(* The loop: a model response requests no tool call or one of LoopCalls,   *)
(* as often as it likes; every step of a turn that can be taken is taken.  *)
(***************************************************************************)
\* most requests received in one behaviour of LoopSpec
MaxLoopTurns == 1
LoopCalls ==
  {Args("delete", sFood, NoneStr, NoneInt, None, None, None, NoneStr)}
LoopResponses == {<<>>} \cup {<<a>> : a \in LoopCalls}
\* more tool calls than the turns of LoopSpec can make
LoopCallBound == RecursionLimit * (MaxLoopTurns + 1)

\* a step of the body of query_agent, from its start to its return or raise
LoopRun(c) ==
  \/ Enter(c)
  \/ \E resp \in LoopResponses : Assistant(c, resp, LoopCallBound)
  \/ AssistantFail(c)
  \/ ToolDispatch(c)
  \/ \E output \in SummaryOutputs : Summarize(c, output)
  \/ SummarizeFail(c)
  \/ ToolsAndSummarize(c)
  \/ GraphRecursionError(c)
  \/ Finish(c)

LoopNext ==
  \E c \in {1} :
    \/ Receive(c, MaxLoopTurns)
    \/ LoopRun(c)

\* query_agent runs its body to the end without waiting for anything but
\* the calls it makes, each of which returns or raises.
LoopSpec == Init /\ [][LoopNext]_vars /\ WF_vars(LoopRun(1))

(***************************************************************************)
(* The Tool Layer alone: the tool functions applied to any arguments, on   *)
(* any store, with and without an identity in the caller's context.        *)
(***************************************************************************)
\* the dates of the rows of an initial store
StoredDates == {10}
\* the rows an initial store may hold at primary key id
InitialRows(id) ==
  {Expense(id, 50, sGroceries, cat, d, u) :
     cat \in Categories, d \in StoredDates, u \in UserIds}
InitialStores ==
  UNION {{{rows[i] : i \in 1..n} :
            rows \in {f \in [1..n -> UNION {InitialRows(i) : i \in 1..n}] :
                        \A i \in 1..n : f[i].id = i}} :
         n \in 0..MaxExpenses}

ToolInit ==
  /\ expenses \in InitialStores
  /\ nextId = Cardinality(expenses) + 1
  /\ users \in {UserIds, {1}}
  /\ input \in AllCalls
  /\ InitTurn

\* current_user_id.set(current_user.id) of a request of caller c
SetIdentity(c) ==
  /\ pc[c] = "idle"
  /\ LoopFree
  /\ token' = [token EXCEPT ![c] = ctx[c]]
  /\ ctx' = [ctx EXCEPT ![c] = IdentityForTurn(c)]
  /\ pc' = [pc EXCEPT ![c] = "running"]
  /\ lastStep' = Step("set", c)
  /\ UNCHANGED <<storeVars, nodes, convVars, turns, chat, calls, last>>

\* current_user_id.reset(token)
ResetIdentity(c) ==
  /\ InTurn(c)
  /\ ctx' = [ctx EXCEPT ![c] = IdentityAfterTurn(c, FALSE)]
  /\ pc' = [pc EXCEPT ![c] = "idle"]
  /\ lastStep' = Step("reset", c)
  /\ UNCHANGED <<storeVars, token, nodes, convVars, turns, chat, calls, last>>

\* The tool function is applied to the input, once in a behaviour.
ApplyTool(c, now, dbok) ==
  /\ last = <<>>
  /\ CallTool(c, input, now, dbok)

ToolNext ==
  \E c \in Callers :
    \/ SetIdentity(c)
    \/ ResetIdentity(c)
    \/ \E now \in Now, dbok \in BOOLEAN : ApplyTool(c, now, dbok)

ToolSpec == ToolInit /\ [][ToolNext]_vars

(***************************************************************************)
(* Properties.                                                             *)
(***************************************************************************)
\* the retained history and the summary of the thread every request uses
History == conv["1"].messages
Summary == conv["1"].summary

\* the latest step was an Assistant step whose response is the last message
AfterAssistantStep == lastStep.kind = "assistant"
ResponseHasToolCalls == Len(Last(History).tool_calls) > 0

\* C1: after an Assistant step whose response requests tool calls, the only
\* node scheduled is ToolDispatch; Summarize is not entered from such a
\* step, whatever the history length.
C1_ToolCallsGoOnlyToDispatch ==
  (AfterAssistantStep /\ ResponseHasToolCalls) => nodes = {"tools"}

\* C2: after an Assistant step whose response has no tool call, Summarize is
\* next exactly when more than 6 messages are retained (the response
\* counted), and the turn ends when 6 or fewer are.
C2_SummarizeIffOverSix ==
  (AfterAssistantStep /\ ~ResponseHasToolCalls) =>
     /\ (nodes = {"summarize_conversation"}) <=> (Len(History) > 6)
     /\ (Len(History) <= 6) => (nodes = {})

\* C2 witnesses: a response without tool calls that makes the history 7
\* messages long, with Summarize scheduled.
C2_Witness ==
  /\ AfterAssistantStep
  /\ ~ResponseHasToolCalls
  /\ Len(History) = 7
  /\ nodes = {"summarize_conversation"}

\* the last n elements of a sequence
Suffix(seq, n) ==
  IF Len(seq) <= n THEN seq ELSE SubSeq(seq, Len(seq) - n + 1, Len(seq))

\* C3: a successful Summarize step overwrites Summary with the model's
\* output, leaves exactly the last 2 messages of the history it found, in
\* their order, and goes to End.
C3_SummarizeKeepsLastTwoAndEnds ==
  [][(lastStep'.kind \in {"summarize", "tools_summarize"}) =>
       /\ conv'["1"].summary \in SummaryOutputs
       /\ conv'["1"].messages = Suffix(History, 2)
       /\ nodes' = {}]_vars

\* C4 as stated: after 7 turns without tool calls exactly one summarization
\* pass has happened.
C4_OnePassAfterSevenTurns ==
  (chat = 7 /\ LoopFree) => passes = 1

\* C4 amended: after n turns without tool calls the passes made are those of
\* turns 4, 7, ... (one after 4 to 6 turns, two after 7), and the history is
\* the last 2 messages found by the latest pass plus the messages added
\* since; before the first pass it is every message.
C4_PassesEveryThirdTurn ==
  (chat >= 1 /\ LoopFree) =>
     /\ passes = (chat - 1) \div 3
     /\ chat = 7 => passes = 2
     /\ chat \in 4..6 => passes = 1
     /\ Len(History) = 2 + 2 * ((chat - 1) % 3)
     /\ History = Suffix(log["1"], Len(History))

\* C4 witness: seven turns without tool calls are done.
C4_Witness ==
  /\ chat = 7
  /\ LoopFree
  /\ passes = 2
  /\ Len(History) = 2

\* C5: once query_agent has returned or raised, the Identity Context holds
\* the value it had before the call, which is no user id, so that any tool
\* called next in that context reports the missing identity.
C5_IdentityRestoredAfterTurn ==
  \A c \in Callers :
     pc[c] \in {"returned", "raised"} =>
        /\ ctx[c] = token[c]
        /\ ctx[c] = NoneInt
        /\ \A a \in TurnCalls :
              LET out == RunTool(IdentityRead(c), a, expenses, nextId, users,
                                 10, TRUE).out
              IN out.message \in {"User ID is missing.",
                                  "Error: User ID is missing."}

\* C5 witness: a turn that failed in summarization has ended.
C5_Witness ==
  /\ lastStep.kind = "summarize_fail"
  /\ pc[lastStep.caller] = "raised"
  /\ ctx[lastStep.caller] = NoneInt

\* the latest step ran tool functions inside a turn
AfterToolStep ==
  lastStep.kind \in {"tools", "tools_fail", "tools_summarize",
                     "tools_summarize_fail"}

\* C6: every tool that runs in a turn reads the user id of the user whose
\* request started the turn, also while a request of another user waits.
C6_ToolsReadTheCallersIdentity ==
  AfterToolStep =>
     \A i \in DOMAIN last : last[i].uid = current_user(lastStep.caller).id

\* C6 witness: tools ran for one caller while the request of another caller
\* was in flight.
C6_Witness ==
  /\ lastStep.kind = "tools"
  /\ last # <<>>
  /\ \E d \in Callers \ {lastStep.caller} : pc[d] = "pending"
  /\ last[1].uid = lastStep.caller

\* the latest step was a direct call of a tool function; TheCall is what it
\* was called with, TheUid the identity it read and TheOut its outcome
AfterCall == lastStep.kind = "call" /\ last # <<>>
TheCall == last[1].call
TheUid == last[1].uid
TheOut == last[1].out

\* C7: each of the four tools, called while the Identity Context holds no
\* user id, returns the missing-identity failure without raising and leaves
\* the Expense Store as it was, whatever its other arguments.
C7_NoIdentityIsAStructuredError ==
  [][(lastStep'.kind = "call" /\ last'[1].uid = NoneInt) =>
       /\ ~last'[1].out.raised
       /\ last'[1].out.message \in {"User ID is missing.",
                                    "Error: User ID is missing."}
       /\ last'[1].out.kind = "dict" => last'[1].out.status = "error"
       /\ ~last'[1].out.touched
       /\ expenses' = expenses
       /\ nextId' = nextId]_vars

\* C7 witness: Bulk Delete was called without an identity on a category in
\* which a user owns a record.
C7_Witness ==
  /\ AfterCall
  /\ TheUid = NoneInt
  /\ TheCall.tool = "delete"
  /\ \E u \in UserIds : ByCategory(expenses, TheCall.category, u) # {}
  /\ TheOut.message = "User ID is missing."

\* C8: no tool function lets an exception escape to its caller: every call
\* returns a result.
C8_ToolLayerNeverRaises ==
  AfterCall => ~TheOut.raised

\* C9: Bulk Delete by an identified, existing user on a category in which
\* that user owns no record returns status "error" with the message "No
\* expenses found in category" and removes no record.
C9_DeleteOfEmptyCategoryIsNotFound ==
  [][(/\ lastStep'.kind = "call"
      /\ last'[1].call.tool = "delete"
      /\ last'[1].uid \in users
      /\ ByCategory(expenses, last'[1].call.category, last'[1].uid) = {}) =>
       /\ ~last'[1].out.raised
       /\ last'[1].out.status = "error"
       /\ last'[1].out.message = "No expenses found in category"
       /\ expenses' = expenses]_vars

\* C10: Bulk Update with a category and only a new amount sets the amount on
\* every record of the caller in that category and leaves the description
\* and the date of each of those records as they were.
C10_AmountOnlyUpdateKeepsOtherFields ==
  [][(/\ lastStep'.kind = "call"
      /\ last'[1].call.tool = "update"
      /\ last'[1].uid \in users
      /\ last'[1].call.amount # NoneInt
      /\ last'[1].call.description = NoneStr
      /\ last'[1].call.date = None) =>
       \A e \in ByCategory(expenses, last'[1].call.category, last'[1].uid) :
          \E f \in expenses' :
             /\ f.id = e.id
             /\ f.amount = last'[1].call.amount
             /\ f.description = e.description
             /\ f.date = e.date]_vars

\* the text in lower case
Lower(s) == [i \in 1..Len(s) |-> LowerChar(s[i])]
\* x occurs in s as a substring, ignoring case
ContainsIgnoreCase(s, x) ==
  \E i \in 0..(Len(s) - Len(x)) :
     SubSeq(Lower(s), i + 1, i + Len(x)) = Lower(x)

\* the latest call was a Query that ran its query and returned its outcome
AfterQuery ==
  /\ AfterCall
  /\ TheCall.tool = "get"
  /\ TheOut.message \in {"Here are your expenses",
                         "No expenses found with the specified criteria."}

\* record e passes every filter the Query was called with
MatchesFilters(e, a) ==
  /\ TruthyStr(a.category) => ContainsIgnoreCase(e.category, a.category)
  /\ TruthyStr(a.description_keyword) =>
        ContainsIgnoreCase(e.description, a.description_keyword)
  /\ TruthyText(a.start_date) => e.date >= ParseDate(a.start_date)
  /\ TruthyText(a.end_date) => e.date <= ParseDate(a.end_date)

\* C11: every record a Query with a category filter returns is owned by the
\* caller and has a category that contains the filter as a substring,
\* ignoring case; no record of another user is returned; and every record
\* of the caller that passes all the filters supplied is returned.
C11_QueryReturnsTheCallersMatches ==
  (AfterQuery /\ TruthyStr(TheCall.category)) =>
     /\ \A e \in TheOut.data :
           /\ e \in expenses
           /\ e.user_id = TheUid
           /\ ContainsIgnoreCase(e.category, TheCall.category)
     /\ \A e \in expenses :
           (e.user_id = TheUid /\ MatchesFilters(e, TheCall)) =>
              e \in TheOut.data

\* the latest call was a Query by an identified caller whose start and end
\* dates both parse
AfterDatedQuery ==
  /\ AfterCall
  /\ TheCall.tool = "get"
  /\ TruthyInt(TheUid)
  /\ ParseDate(TheCall.start_date) # NoneInt
  /\ ParseDate(TheCall.end_date) # NoneInt

\* C12: a Query whose start and end dates both parse and whose start is
\* after its end returns the "Start date cannot be after end date" error
\* without reaching the Expense Store; a start equal to the end is no error.
C12_StartAfterEndIsRejectedBeforeTheStore ==
  AfterDatedQuery =>
     /\ ParseDate(TheCall.start_date) > ParseDate(TheCall.end_date) =>
           /\ TheOut.message = "Error: Start date cannot be after end date."
           /\ ~TheOut.raised
           /\ ~TheOut.touched
           /\ TheOut.data = {}
     /\ ParseDate(TheCall.start_date) <= ParseDate(TheCall.end_date) =>
           /\ TheOut.message # "Error: Start date cannot be after end date."
           /\ TheOut.touched

\* C12 witness: a Query from 25 January to 1 January by a user who owns a
\* record was rejected.
C12_Witness ==
  /\ AfterDatedQuery
  /\ TheCall.start_date = "25 January"
  /\ TheCall.end_date = "1 January"
  /\ \E e \in expenses : e.user_id = TheUid
  /\ TheOut.message = "Error: Start date cannot be after end date."

\* the latest call was a successful Create of (50, "Food", "Groceries") by an
\* existing user who owns no other record whose category matches "Food"
AfterCreateOfFood ==
  /\ AfterCall
  /\ TheCall.tool = "create"
  /\ TheCall.amount = 50
  /\ TheCall.category = sFood
  /\ TheCall.description = sGroceries
  /\ TheUid \in users
  /\ TheOut.status = "success"
  /\ \A e \in expenses \ TheOut.data :
        e.user_id = TheUid => ~ContainsIgnoreCase(e.category, sFood)

\* what Query by the latest caller with category "Food" returns now
QueryFood ==
  tool_get_expenses(TheUid,
                    Args("get", sFood, NoneStr, NoneInt, None, None, None,
                         NoneStr),
                    expenses, nextId, users).out

\* the sum of the amounts of a set of records
RECURSIVE AmountSum(_)
AmountSum(S) ==
  IF S = {} THEN 0
  ELSE LET e == CHOOSE x \in S : TRUE IN e.amount + AmountSum(S \ {e})

\* C13: after user U creates an expense with amount 50, category "Food" and
\* description "Groceries" where U has no other "Food" record, Query by U
\* with category "Food" returns exactly that record and the total 50; the
\* total of any Query is the sum of the amounts of the records it returns.
C13_CreateThenQueryRoundTrips ==
  /\ AfterCreateOfFood =>
        /\ QueryFood.message = "Here are your expenses"
        /\ QueryFood.data = TheOut.data
        /\ Cardinality(QueryFood.data) = 1
        /\ \A e \in QueryFood.data :
              /\ e.amount = 50
              /\ e.category = sFood
              /\ e.description = sGroceries
              /\ e.user_id = TheUid
        /\ QueryFood.total = 50
  /\ AfterQuery => TheOut.total = AmountSum(TheOut.data)

\* C13 witness: the record was created next to a "Food" record of another
\* user.
C13_Witness ==
  /\ AfterCreateOfFood
  /\ \E e \in expenses : e.user_id # TheUid /\ e.category = sFood
  /\ QueryFood.total = 50

\* C14: a tool call leaves every record with the owner it had; a record it
\* adds is owned by the user whose identity the call read, and only such a
\* user's call adds one; a call under the identity of user A returns,
\* changes and removes no record owned by another user; primary keys stay
\* unique, so that a record has one owner.
C14_RecordsStayWithTheirOwner ==
  [][(lastStep'.kind = "call") =>
       LET A == last'[1].uid
       IN /\ \A e \in expenses, f \in expenses' :
                f.id = e.id => f.user_id = e.user_id
          /\ \A f \in expenses' :
                (\A e \in expenses : e.id # f.id) =>
                   f.user_id = A /\ A \in UserIds
          /\ \A e \in expenses : e.user_id # A => e \in expenses'
          /\ \A e \in last'[1].out.data : e.user_id = A
          /\ \A f, g \in expenses' : f.id = g.id => f = g]_vars

\* C14 witness: a Bulk Update by one user changed that user's record of a
\* category in which another user owns a record too.
C14_Witness ==
  /\ AfterCall
  /\ TheCall.tool = "update"
  /\ TheOut.status = "success"
  /\ \E e \in expenses :
        e.user_id = TheUid /\ e.category = TheCall.category /\ e.amount = 200
  /\ \E e \in expenses :
        e.user_id # TheUid /\ e.category = TheCall.category /\ e.amount = 50

\* C15: when the model call of the first Assistant step of a turn fails (the
\* history then ends with the turn's Human message), the thread is left as
\* it was before the turn: the summary is kept and the history is without
\* the Human message of the failed turn.
C15_FailedFirstModelCallLeavesNoTrace ==
  [][(lastStep'.kind = "assistant_fail" /\ Last(History).type = "human") =>
       /\ conv'["1"].summary = Summary
       /\ conv'["1"].messages = SubSeq(History, 1, Len(History) - 1)]_vars

\* C16: when the model call of a Summarize step fails, no message is removed
\* from the history, the Summary keeps the value it had, and the request
\* ends with query_agent raising instead of returning a text.
C16_FailedSummarizeKeepsHistoryAndSummary ==
  [][(lastStep'.kind = "summarize_fail") =>
       /\ conv' = conv
       /\ passes' = passes
       /\ pc'[lastStep'.caller] = "raised"]_vars

\* C16 witness: a summarization failed on a history of 8 messages while an
\* earlier pass had left a summary.
C16_Witness ==
  /\ lastStep.kind = "summarize_fail"
  /\ Len(History) = 8
  /\ Summary = <<"sA">>
  /\ passes = 1
  /\ pc[lastStep.caller] = "raised"

\* the latest step ended the turn with an error after a node had failed
AfterFailedStep ==
  lastStep.kind \in {"assistant_fail", "summarize_fail", "tools_fail",
                     "tools_summarize_fail"}

\* C17: the failure of a model call or of a summarization leaves the Expense
\* Store with every change the tool calls made, and ends the turn: no node
\* of it runs again.  Only a step that runs tool calls changes the store.
C17_FailedTurnKeepsToolEffects ==
  [][/\ (lastStep'.kind \in {"assistant_fail", "summarize_fail"}) =>
          /\ expenses' = expenses
          /\ nextId' = nextId
          /\ nodes' = {}
          /\ pc'[lastStep'.caller] = "raised"
     /\ (expenses' # expenses) =>
          lastStep'.kind \in {"tools", "tools_fail", "tools_summarize",
                              "tools_summarize_fail"}
     /\ (AfterFailedStep /\ lastStep' # lastStep) =>
          lastStep'.kind = "receive"]_vars

\* C17 witness: a turn requested a Create and a Bulk Delete together, the
\* Create was committed and the Bulk Delete failed, and the turn then failed
\* in its next model call with the created record left in the store.
C17_Witness ==
  /\ lastStep.kind = "assistant_fail"
  /\ pc[lastStep.caller] = "raised"
  /\ Len(History) >= 4
  /\ {History[Len(History) - 1].content, History[Len(History)].content}
       = {<<"Expense stored successfully.">>, <<"Error:", "NameError">>}
  /\ \E e \in expenses : e.user_id = lastStep.caller

\* C18: every request runs on the one thread "1", whoever sends it: no other
\* thread is ever written, and the message list given to the model in an
\* Assistant step is the summary and every retained message of that thread,
\* those left by the turns of other users included.
C18_AllUsersShareOneThread ==
  /\ \A t \in ThreadIds \ {"1"} : conv[t] = EmptyThread
  /\ AfterAssistantStep =>
        /\ Len(llmIn) = Len(History)
        /\ llmIn[1] = SystemMessage(Summary)
        /\ \A i \in 1..(Len(History) - 1) : llmIn[i + 1] = History[i]

\* C18 witness: the model input of a turn of user 2 holds the Human message
\* and a Tool-Result of an earlier turn of user 1.
C18_Witness ==
  /\ AfterAssistantStep
  /\ lastStep.caller = 2
  /\ pc[1] = "returned"
  /\ \E i \in DOMAIN llmIn :
        llmIn[i].type = "human" /\ llmIn[i].content = UserText(1)
  /\ \E i \in DOMAIN llmIn : llmIn[i].type = "tool"
  /\ \A i \in DOMAIN llmIn :
        llmIn[i].type = "human" /\ llmIn[i].content = UserText(2) =>
           i = Len(llmIn)

C20_AssistantInputIsSystemThenHistory ==
  [][(lastStep'.kind = "assistant") =>
       /\ Len(llmIn') = Len(History) + 1
       /\ llmIn'[1].type = "system"
       /\ llmIn'[1].content =
            IF Summary = <<>> THEN <<"sys_msg">>
            ELSE <<"Summary of conversation earlier:">> \o Summary
                 \o <<"sys_msg">>
       /\ \A i \in 1..Len(History) : llmIn'[i + 1] = History[i]
       /\ \A i \in 1..Len(History) : History[i].type # "system"
       /\ Len(conv'["1"].messages) = Len(History) + 1
       /\ SubSeq(conv'["1"].messages, 1, Len(History)) = History
       /\ Last(conv'["1"].messages).type = "ai"
       /\ conv'["1"].summary = Summary]_vars

\* C20 witness: an Assistant step ran with a summary left by an earlier
\* pass.
C20_Witness ==
  /\ AfterAssistantStep
  /\ Summary = <<"sA">>
  /\ llmIn[1].content = <<"Summary of conversation earlier:", "sA", "sys_msg">>
  /\ Len(llmIn) = Len(History)
  /\ Len(History) >= 2

\* C21: Create called by an identified user with an amount and a category,
\* the description supplied or omitted, and not refused by the store, adds
\* exactly one record, owned by that user and with that amount and
\* category, keeps every other record and returns success with the record.
C21_CreateAddsOneRecordOfTheCaller ==
  [][(/\ lastStep'.kind = "call"
      /\ last'[1].call.tool = "create"
      /\ TruthyInt(last'[1].uid)
      /\ last'[1].out.message # "store error") =>
       LET a == last'[1].call
           new == expenses' \ expenses
       IN /\ ~last'[1].out.raised
          /\ last'[1].out.status = "success"
          /\ expenses \subseteq expenses'
          /\ Cardinality(new) = 1
          /\ \A f \in new :
                /\ f.user_id = last'[1].uid
                /\ f.amount = a.amount
                /\ f.category = a.category
                /\ \A e \in expenses : e.id # f.id
          /\ last'[1].out.data = new]_vars

\* C22: every turn ends: a request that was received returns or raises,
\* even when every model response requests a tool call.
C22_EveryTurnEnds ==
  (pc[1] \in {"pending", "running"}) ~> (pc[1] \in {"returned", "raised"})
\* a turn in which every response requested a tool call was ended by the
\* step limit
C22_Witness ==
  /\ lastStep.kind = "recursion_error"
  /\ pc[1] = "raised"
  /\ Supersteps(1) = RecursionLimit
  /\ \A i \in DOMAIN TurnLog(1) :
       TurnLog(1)[i].type = "ai" => Len(TurnLog(1)[i].tool_calls) > 0

\* C23: when a turn ends successfully, after any turns with or without tool
\* calls, the retained history of the thread holds at most 6 messages.
C23_HistoryAtMostSixAtEnd ==
  lastStep.kind = "finish" => Len(History) <= THRESHOLD
\* a turn with tool calls ends with exactly 6 retained messages
C23_Witness ==
  /\ lastStep.kind = "finish"
  /\ calls > 0
  /\ Len(History) = THRESHOLD

\* the Assistant message that requested the tool call which the message at
\* position i of seq answers is in seq before position i
Requested(seq, i) ==
  \E j \in 1..(i - 1) : seq[j].type = "ai" /\ seq[j].id = seq[i].of

\* C24: in every retained history each Tool-Result message is preceded by
\* the Assistant message that requested its tool call.
C24_NoOrphanToolResult ==
  \A i \in DOMAIN History : History[i].type = "tool" => Requested(History, i)

\* Bulk Delete with the category of the latest call, by its caller, on the
\* store as it is, the store accepting the write
BulkDeleteSameCategory ==
  tool_delete_expenses(TheUid,
                       Args("delete", TheCall.category, NoneStr, NoneInt,
                            None, None, None, NoneStr),
                       expenses, nextId, users, TRUE).out

\* C25: every record a Query by user U with category c returns is selected
\* by the bulk operations of U with the same c, and Bulk Delete by U with c
\* succeeds whenever the Query returns at least one record.
C25_QueryAndBulkAgreeOnCategory ==
  (AfterQuery /\ TruthyStr(TheCall.category)) =>
     /\ TheOut.data \subseteq ByCategory(expenses, TheCall.category, TheUid)
     /\ TheOut.data # {} =>
           /\ ~BulkDeleteSameCategory.raised
           /\ BulkDeleteSameCategory.status = "success"

\* every message ever appended to the thread every request uses
Appended == log["1"]

\* C26: the retained history of the thread is a contiguous suffix, in the
\* original order, of the sequence of all messages ever appended to it, and
\* the instruction message of a Summarize step is never appended.
C26_HistoryIsSuffixOfAppended ==
  /\ Len(History) <= Len(Appended)
  /\ History = Suffix(Appended, Len(History))
  /\ \A i \in DOMAIN Appended :
       Appended[i] \notin {SummaryPrompt(o) : o \in SummaryOutputs}
\* a Summarize step sent its instruction to the model after a turn with
\* tool calls and left the last messages appended
C26_Witness ==
  /\ lastStep.kind = "summarize"
  /\ calls > 0
  /\ Last(llmIn) = SummaryPrompt(<<>>)
  /\ Len(History) = KEEP
  /\ Len(Appended) > THRESHOLD

====
